---- MODULE Spec2Model ----
(***************************************************************************)
(* Layer composition, fetch-merge and feature-interaction engine of the    *)
(* Brushy Canyon GIS web front end (frontend/src/App.tsx and               *)
(* frontend/src/components/Map.tsx).                                       *)
(*                                                                         *)
(* The front end is single-threaded: every action below is one event       *)
(* handler or one continuation of an async function, run to its next       *)
(* await, together with the re-render and the effects it triggers.         *)
(***************************************************************************)
EXTENDS Integers, Sequences, FiniteSets, TLC

\* ------------------------------------------------------------------ bounds

\* number of user events (layer toggles, feature clicks, pointer enters and
\* leaves) in a behaviour
MaxEvents == 3

\* number of entries of a ColorMap
MaxColors == 2

\* number of entries of the browser history
MaxHistory == 2

\* ------------------------------------------------- the backend data service

\* the layer identifiers of the checkboxes (two of the type's tokens)
Layers == {"faults", "fan_geology"}

\* GET /api/v1/geologic/{layer}: the layer's FeatureCollection, features by id
LayerData(l) == IF l = "faults" THEN <<1, 2>> ELSE <<3>>

Features == {1, 2, 3}

\* the layer a feature belongs to
LayerOf(f) == IF f \in {1, 2} THEN "faults" ELSE "fan_geology"

\* the absent / null value of a feature attribute
NoValue == "<none>"

\* a feature's attribute mapping (properties)
Props(f) ==
  CASE f = 1 -> [Name |-> "F1", CYCLE |-> "BC1", FOURTH_ORD |-> "A", Hyperlink |-> "p1"]
    [] f = 2 -> [Name |-> "F2", CYCLE |-> "BC2", FOURTH_ORD |-> NoValue, Hyperlink |-> NoValue]
    [] OTHER -> [Name |-> "F3", CYCLE |-> NoValue, FOURTH_ORD |-> "C", Hyperlink |-> "p3"]

\* outcome of one layer retrieval: a FeatureCollection, a JSON body without a
\* features member (an error status still parses), or a rejected fetch / json()
FetchOutcomes == {"ok", "nofeatures", "throw"}

\* the parsed body `data` of a retrieval that did not throw
ResponseBody(l, outcome) ==
  IF outcome = "ok" THEN [hasFeatures |-> TRUE, features |-> LayerData(l)]
  ELSE [hasFeatures |-> FALSE, features |-> <<>>]

\* ------------------------------------------------------------ React values

\* geojson state: null or a FeatureCollection
Null == [isNull |-> TRUE, features |-> <<>>]
FC(feats) == [isNull |-> FALSE, features |-> feats]

\* selectedFeature state: null or {properties, photoUrl}
NullUrl == "<null>"
NoSelection == [isNull |-> TRUE, properties |-> Props(2), photoUrl |-> NullUrl]
Selection(props, url) == [isNull |-> FALSE, properties |-> props, photoUrl |-> url]

VARIABLES
  phase,            \* position in React's mount sequence
  strict,           \* StrictMode double-invokes the mount effects (dev build)
  selectedLayers,   \* App state: the active layers, in toggle order
  geojson,          \* App state: the published MergedCollection
  selectedFeature,  \* App state: the SelectionState
  rounds,           \* the runs of fetchLayers suspended at a retrieval
  lastRound,        \* the run of fetchLayers that published last
  toggles,          \* number of toggles so far
  mapCurrent,       \* Map ref map.current: 0 (null) or an index into maps
  mapLoaded,        \* Map ref mapLoaded.current
  maps,             \* every canvas constructed so far
  lastUpdate,       \* the last non-null collection handed to the map
  clicks,           \* the click handlers suspended at a photo retrieval
  clickCount,       \* number of click events so far
  selBy,            \* the click that published selectedFeature (0: none)
  hovers,           \* number of pointer-enter and pointer-leave events so far
  colors,           \* the imported ColorMap, in Object.entries order
  colorExpression,  \* the style expression addOrUpdateSource is building
  paint,            \* the colour paint property of each layer it adds
  stylePc,          \* its position: [at, k], k the forEach index
  user,             \* useAuth().user
  loading,          \* useAuth().loading
  location,         \* the browser history, the current location last
  element           \* what the router renders for the current location

vars == <<phase, strict, selectedLayers, geojson, selectedFeature, rounds,
          lastRound, toggles, mapCurrent, mapLoaded, maps, lastUpdate,
          clicks, clickCount, selBy, hovers,
          colors, colorExpression, paint, stylePc,
          user, loading, location, element>>

appVars == <<selectedLayers, geojson, rounds, lastRound, toggles>>
selVars == <<selectedFeature, clicks, clickCount, selBy>>
mapVars == <<mapCurrent, mapLoaded, maps, lastUpdate>>
styleVars == <<colors, colorExpression, paint, stylePc>>
routeVars == <<user, loading, location, element>>

\* ------------------------------------------------------------- helpers

SeqToSet(s) == {s[i] : i \in 1..Len(s)}

Includes(s, x) == \E i \in 1..Len(s) : s[i] = x

\* Array.prototype.filter(l => l # x)
RECURSIVE Without(_, _)
Without(s, x) ==
  IF s = <<>> THEN <<>>
  ELSE IF Head(s) = x THEN Without(Tail(s), x)
       ELSE <<Head(s)>> \o Without(Tail(s), x)

\* ----------------------------------------------- Layer Fetch-Merge Controller

\* mutant: the checkbox handler appends without looking at the previous list
handleLayerChange_alwaysAppend(prev, layer) == Append(prev, layer)

\* handleLayerChange's updater: remove the layer if present, else append it
handleLayerChange(prev, layer) ==
  IF Includes(prev, layer) THEN Without(prev, layer) ELSE Append(prev, layer)

\* mutant: only the first retrieved collection is merged
FlatMapFeatures_firstOnly(layerData) ==
  IF layerData = <<>> \/ ~Head(layerData).hasFeatures THEN <<>>
  ELSE Head(layerData).features

\* layerData.flatMap((fc) => fc.features || [])
RECURSIVE FlatMapFeatures(_)
FlatMapFeatures(layerData) ==
  IF layerData = <<>> THEN <<>>
  ELSE (IF Head(layerData).hasFeatures THEN Head(layerData).features ELSE <<>>)
       \o FlatMapFeatures(Tail(layerData))

\* mutant: layerData is one buffer shared by all runs, never reset
NewRound_sharedBuffer(sl, n) ==
  [gen       |-> n,
   layers    |-> sl,
   idx       |-> 1,
   layerData |-> lastRound.layerData,
   outcome   |-> [l \in Layers |-> "none"],
   issued    |-> {sl[1]},
   pubCount  |-> 0,
   merged    |-> Null]

\* a run of fetchLayers over a non-empty selection, suspended at its first fetch
NewRound(sl, n) ==
  [gen       |-> n,                          \* the toggle that started the run
   layers    |-> sl,
   idx       |-> 1,                          \* loop position: the fetch awaited
   layerData |-> <<>>,
   outcome   |-> [l \in Layers |-> "none"],  \* how each retrieval ended
   issued    |-> {sl[1]},                    \* the retrievals issued so far
   pubCount  |-> 0,                          \* calls of setGeojson by this run
   merged    |-> Null]                       \* what the run passed to setGeojson

InFlight(r) == r.idx <= Len(r.layers)

\* no run of fetchLayers has published yet
NoRound ==
  [gen |-> 0, layers |-> <<>>, idx |-> 1, layerData |-> <<>>,
   outcome |-> [l \in Layers |-> "none"], issued |-> {}, pubCount |-> 0,
   merged |-> Null]

\* s without its i-th element
RemoveAt(s, i) == SubSeq(s, 1, i - 1) \o SubSeq(s, i + 1, Len(s))

\* the body of the for-loop after its await: push the parsed body, or catch
AfterAwait(r, o) ==
  LET l == r.layers[r.idx] IN
  [r EXCEPT !.layerData = IF o = "throw" THEN @ ELSE Append(@, ResponseBody(l, o)),
            !.outcome[l] = o,
            !.idx = @ + 1]

\* mutant: the try/catch encloses the loop, so a failure ends the loop and the
\* run publishes what it has
ResumeRound_catchOutsideLoop(r, o) ==
  LET s == AfterAwait(r, o) IN
  IF InFlight(s) /\ o # "throw"
  THEN [s EXCEPT !.issued = @ \cup {s.layers[s.idx]}]
  ELSE [s EXCEPT !.idx = Len(s.layers) + 1,
                 !.pubCount = @ + 1,
                 !.merged = FC(FlatMapFeatures(s.layerData))]

\* mutant: setGeojson is called inside the loop, after every retrieval
ResumeRound_publishEachStep(r, o) ==
  LET s == AfterAwait(r, o)
      t == [s EXCEPT !.pubCount = @ + 1,
                     !.merged = FC(FlatMapFeatures(s.layerData))]
  IN IF InFlight(t) THEN [t EXCEPT !.issued = @ \cup {t.layers[t.idx]}] ELSE t

\* mutant: no try/catch, a failed retrieval rejects the run before setGeojson
ResumeRound_uncaught(r, o) ==
  LET s == AfterAwait(r, o) IN
  IF o = "throw" THEN [s EXCEPT !.idx = Len(s.layers) + 1]
  ELSE IF InFlight(s)
  THEN [s EXCEPT !.issued = @ \cup {s.layers[s.idx]}]
  ELSE [s EXCEPT !.pubCount = @ + 1,
                 !.merged = FC(FlatMapFeatures(s.layerData))]

\* fetchLayers resumed with the outcome o of the retrieval it awaits: the loop
\* issues the next retrieval, or ends and the run merges and publishes
ResumeRound(r, o) ==
  LET s == AfterAwait(r, o) IN
  IF InFlight(s)
  THEN [s EXCEPT !.issued = @ \cup {s.layers[s.idx]}]
  ELSE [s EXCEPT !.pubCount = @ + 1,
                 !.merged = FC(FlatMapFeatures(s.layerData))]

\* --------------------------------------------------------- Map Rendering Engine

LayerIds == {"geojson-fill", "geojson-line", "geojson-labels", "geojson-circle"}

\* const layerIds = [...]: the layers that get pointer subscriptions
InteractiveLayers == {"geojson-fill", "geojson-line", "geojson-circle"}

PointerEvents == {"click", "mouseenter", "mouseleave"}

\* a listener registered with map.on("load", ...)
SetLoadedListener == [kind |-> "setLoaded", data |-> Null]
UpdateListener(g) == [kind |-> "update", data |-> g]

\* new mapboxgl.Map(...) with the first load listener registered on it
NewMap ==
  [removed    |-> FALSE,
   loaded     |-> FALSE,                     \* the one-shot load event has fired
   listeners  |-> <<SetLoadedListener>>,
   sources    |-> 0,                         \* addSource("geojson-data") calls
   sourceData |-> <<>>,
   setDatas   |-> 0,                         \* setData calls on the source
   layers     |-> [id \in LayerIds |-> 0],   \* addLayer calls per layer id
   subs       |-> [p \in InteractiveLayers \X PointerEvents |-> 0],
   cursor     |-> ""]                        \* getCanvas().style.cursor

\* the Map component's refs: [cur, loaded, maps]
MapRefs == [cur |-> mapCurrent, loaded |-> mapLoaded, maps |-> maps]

\* the mount effect: construct the canvas unless map.current is set
MapInitEffect(ms) ==
  IF ms.cur # 0 THEN ms
  ELSE [ms EXCEPT !.maps = Append(@, NewMap), !.cur = Len(ms.maps) + 1]

\* mutant: the cleanup removes the canvas but leaves the refs as they are
MapCleanup_keepsRefs(ms) ==
  [ms EXCEPT !.maps = IF ms.cur = 0 THEN @ ELSE [@ EXCEPT ![ms.cur].removed = TRUE]]

\* the mount effect's cleanup
MapCleanup(ms) ==
  [cur    |-> 0,
   loaded |-> FALSE,
   maps   |-> IF ms.cur = 0 THEN ms.maps
              ELSE [ms.maps EXCEPT ![ms.cur].removed = TRUE]]

\* the else-branch of addOrUpdateSource: source, four layers, subscriptions
AddSourceAndLayers(m, g) ==
  [m EXCEPT !.sources = @ + 1,
            !.sourceData = g.features,
            !.layers = [id \in LayerIds |-> @[id] + 1],
            !.subs = [p \in InteractiveLayers \X PointerEvents |-> @[p] + 1]]

\* the then-branch: source.setData(geojson)
SetData(m, g) == [m EXCEPT !.sourceData = g.features, !.setDatas = @ + 1]

\* mutant: the source and the layers are added on every call
AddOrUpdateSource_alwaysAdd(ms, g) ==
  IF ms.cur = 0 THEN ms
  ELSE [ms EXCEPT !.maps[ms.cur] = AddSourceAndLayers(@, g)]

\* addOrUpdateSource, closed over the collection g
AddOrUpdateSource(ms, g) ==
  IF ms.cur = 0 THEN ms
  ELSE [ms EXCEPT !.maps[ms.cur] =
          IF @.sources > 0 THEN SetData(@, g) ELSE AddSourceAndLayers(@, g)]

\* mutant: an update that arrives before the load event is dropped
MapDataEffect_dropBeforeLoad(ms, g) ==
  IF ms.cur = 0 \/ g.isNull \/ ~ms.loaded THEN ms
  ELSE AddOrUpdateSource(ms, g)

\* the effect on [geojson, colors]
MapDataEffect(ms, g) ==
  IF ms.cur = 0 \/ g.isNull THEN ms
  ELSE IF ms.loaded THEN AddOrUpdateSource(ms, g)
       ELSE [ms EXCEPT !.maps[ms.cur].listeners = Append(@, UpdateListener(g))]

RunListener(ms, l) ==
  IF l.kind = "setLoaded" THEN [ms EXCEPT !.loaded = TRUE]
  ELSE AddOrUpdateSource(ms, l.data)

\* the canvas fires "load": its listeners run in registration order
RECURSIVE RunListeners(_, _)
RunListeners(ms, ls) ==
  IF ls = <<>> THEN ms
  ELSE RunListeners(RunListener(ms, Head(ls)), Tail(ls))

FireLoad(ms, m) ==
  RunListeners([ms EXCEPT !.maps[m].loaded = TRUE], ms.maps[m].listeners)

SetMapRefs(ms) ==
  /\ mapCurrent' = ms.cur
  /\ mapLoaded' = ms.loaded
  /\ maps' = ms.maps

\* setGeojson(g), the re-render and the Map's data effect
Publish(g) ==
  /\ geojson' = g
  /\ SetMapRefs(MapDataEffect(MapRefs, g))
  /\ lastUpdate' = IF mapCurrent # 0 /\ ~g.isNull THEN g ELSE lastUpdate

\* ------------------------------------------------------------- Route guarding

\* the paths of the router
Paths == {"/", "/dashboard", "/signin", "/signup"}

\* the values useAuth() may give for user: null or a signed-in user
NoUser == "<no user>"
Users == {"u1"}

\* mutant: the guard does not look at loading
ProtectedRoute_ignoresLoading(u, l) ==
  IF u # NoUser THEN "Outlet" ELSE "Navigate"

\* the element ProtectedRoute returns
ProtectedRoute(u, l) ==
  IF l THEN "Loading..."
  ELSE IF u # NoUser THEN "Outlet" ELSE "Navigate"

\* the element the router renders at a path; the Outlet of ProtectedRoute is
\* the dashboard's App
RouteElement(path, u, l) ==
  CASE path = "/"          -> "HomePage"
    [] path = "/dashboard" -> (IF ProtectedRoute(u, l) = "Outlet" THEN "App"
                               ELSE ProtectedRoute(u, l))
    [] path = "/signin"    -> "SignInForm"
    [] OTHER               -> "SignUpForm"

\* the current location
Current(loc) == loc[Len(loc)]

\* ------------------------------------------------------ Colour style expression

\* the CYCLE values and colour tokens of a ColorMap
Categories == {"BC1", "BC2", "BC3"}
ColorTokens == {"#1f78b4", "#33a02c"}

\* the ColorMaps of at most MaxColors entries: the entries of a JSON object, in
\* Object.entries order, no key twice
ColorMaps ==
  UNION {{cm \in [1..n -> [cycle : Categories, color : ColorTokens]] :
            \A i, j \in 1..n : i # j => cm[i].cycle # cm[j].cycle} : n \in 0..MaxColors}

\* import fanGeologyColors from "../fanGeology.json"
fanGeologyColors ==
  <<[cycle |-> "BC1", color |-> "#1f78b4"], [cycle |-> "BC2", color |-> "#33a02c"]>>

\* const colorExpression = ["match", ["get", "CYCLE"]]
NewColorExpression == <<"match", <<"get", "CYCLE">>>>

\* mutant: the forEach callback pushes the colour without its category
PushEntry_colorOnly(expr, entry) == Append(expr, entry.color)

\* colorExpression.push(cycle, color)
PushEntry(expr, entry) == expr \o <<entry.cycle, entry.color>>

\* colorExpression.push("#CCCCCC")
FallbackColor == "#CCCCCC"
PushFallback(expr) == Append(expr, FallbackColor)

\* the colour paint property of an addLayer call: fill-color, line-color and
\* circle-color are the expression, the label layer has no colour paint
NoPaint == <<>>
LayerPaint(id, expr) == IF id = "geojson-labels" THEN NoPaint ELSE expr

\* ---------------------------------------------------- Feature Interaction Handler

Geometry(f) == CASE f = 1 -> "Polygon" [] f = 2 -> "LineString" [] OTHER -> "Point"

\* the filter property of the addLayer call of a layer: a geometry type, or
\* no filter at all
NoFilter == "<no filter>"
LayerFilter(id) ==
  CASE id = "geojson-fill"   -> "Polygon"
    [] id = "geojson-circle" -> "Point"
    [] OTHER                 -> NoFilter

\* the features a rendering layer draws, by its type and its filter
LayerDraws(id, f) ==
  CASE id = "geojson-fill"   -> Geometry(f) = "Polygon"
    [] id = "geojson-circle" -> Geometry(f) = "Point"
    [] id = "geojson-line"   -> Geometry(f) \in {"Polygon", "LineString"}
    [] OTHER                 -> TRUE

\* the mouseenter handler: the pointer cursor on the current canvas
onMouseEnter(ms) ==
  IF ms.cur = 0 THEN ms ELSE [ms EXCEPT !.maps[ms.cur].cursor = "pointer"]

\* mutant: the mouseleave handler leaves the cursor as it is
onMouseLeave_keepsCursor(ms) == ms

\* the mouseleave handler: the default cursor on the current canvas
onMouseLeave(ms) ==
  IF ms.cur = 0 THEN ms ELSE [ms EXCEPT !.maps[ms.cur].cursor = ""]

\* outcome of GET /api/v1/photos/photourl/{reference}
PhotoOutcomes == {"url", "nourl", "throw"}

\* the URL the photo service resolves a reference to
ResolvedUrl(ref) == IF ref = "p1" THEN "u1" ELSE "u3"

\* mutant: a failed retrieval is treated like one that resolved
PhotoUrlOf_failureResolves(ref, o) ==
  IF o \in {"url", "throw"} THEN ResolvedUrl(ref) ELSE NullUrl

\* mutant: the url member is never read
PhotoUrlOf_neverUrl(ref, o) == NullUrl

\* photoData?.url?.url || null
PhotoUrlOf(ref, o) == IF o = "url" THEN ResolvedUrl(ref) ELSE NullUrl

\* mutant: the photo is looked up whatever the Hyperlink attribute holds
HasPhotoRef_always(props) == TRUE

\* properties.Hyperlink && properties.Hyperlink !== null
HasPhotoRef(props) == props.Hyperlink # NoValue

\* ------------------------------------------------------------------ Detail View

\* the attributes FeatureDetails renders
DetailFields == {"Name", "CYCLE", "FOURTH_ORD"}

\* <FeatureDetails properties={selectedFeature} photoUrl={selectedFeature.photoUrl}>:
\* the props the App passes while a selection is active
DetailViewProps(sel) ==
  [properties |-> [properties |-> sel.properties, photoUrl |-> sel.photoUrl],
   photoUrl   |-> sel.photoUrl]

\* {properties.X || "N/A"}
RenderedValue(properties, k) ==
  IF k \in DOMAIN properties /\ properties[k] # NoValue THEN properties[k] ELSE "N/A"

\* what FeatureDetails shows for each attribute
DetailView(sel) ==
  [k \in DetailFields |-> RenderedValue(DetailViewProps(sel).properties, k)]

\* the layer-toggle panel is rendered only while nothing is selected
PanelShown == selectedFeature.isNull

\* ------------------------------------------------------------------- actions

\* the state after the first render, nothing of the style built yet
InitApp ==
  /\ phase = "init"
  /\ strict \in BOOLEAN
  /\ selectedLayers = <<>>
  /\ geojson = Null
  /\ selectedFeature = NoSelection
  /\ rounds = <<>>
  /\ lastRound = NoRound
  /\ toggles = 0
  /\ mapCurrent = 0
  /\ mapLoaded = FALSE
  /\ maps = <<>>
  /\ lastUpdate = Null
  /\ clicks = <<>>
  /\ clickCount = 0
  /\ selBy = 0
  /\ hovers = 0
  /\ colorExpression = <<>>
  /\ paint = [id \in LayerIds |-> NoPaint]
  /\ stylePc = [at |-> "start", k |-> 0]

\* the dashboard is open for a signed-in user
Authenticated ==
  /\ user \in Users
  /\ loading = FALSE
  /\ location = <<"/dashboard">>
  /\ element = RouteElement("/dashboard", user, loading)

Init == InitApp /\ colors = fanGeologyColors /\ Authenticated

\* any ColorMap may be the one imported
InitColors == InitApp /\ colors \in ColorMaps /\ Authenticated

\* the page is opened at any path, in any state of the authentication, and
\* the App is not mounted yet
InitRoute ==
  /\ InitApp
  /\ colors = fanGeologyColors
  /\ user \in Users \cup {NoUser}
  /\ loading \in BOOLEAN
  /\ \E p \in Paths : location = <<p>>
  /\ element = RouteElement(Current(location), user, loading)

\* mutant: no early return for the empty selection; the loop runs zero times
\* and the run publishes an empty FeatureCollection
fetchLayers_noEmptyReturn(sl) ==
  IF Len(sl) = 0
  THEN /\ Publish(FC(<<>>))
       /\ UNCHANGED rounds
  ELSE /\ rounds' = Append(rounds, NewRound(sl, toggles'))
       /\ UNCHANGED <<geojson, mapVars>>

\* fetchLayers, run by the effect on [selectedLayers] up to its first await
fetchLayers(sl) ==
  IF Len(sl) = 0
  THEN /\ Publish(Null)
       /\ UNCHANGED rounds
  ELSE /\ rounds' = Append(rounds, NewRound(sl, toggles'))
       /\ UNCHANGED <<geojson, mapVars>>

\* the effects of the first commit, children first: the Map's mount effect, its
\* data effect (geojson is null), then the App's effect on [selectedLayers].
\* Under StrictMode React runs them, cleans them up and runs them again.
Mount ==
  /\ phase \in {"init", "remount"}
  /\ phase' = IF phase = "init" /\ strict THEN "cleanup" ELSE "run"
  /\ LET ms == MapDataEffect(MapInitEffect(MapRefs), geojson) IN
       /\ geojson' = Null
       /\ SetMapRefs(MapDataEffect(ms, Null))
  /\ UNCHANGED <<strict, hovers, styleVars, routeVars, selectedLayers, rounds, lastRound, toggles, lastUpdate, selVars>>

StrictCleanup ==
  /\ phase = "cleanup"
  /\ phase' = "remount"
  /\ SetMapRefs(MapCleanup(MapRefs))
  /\ UNCHANGED <<strict, hovers, styleVars, routeVars, appVars, lastUpdate, selVars>>

\* mutant: the layer panel stays rendered beside the Detail View
Toggle_panelAlwaysShown(l) ==
  /\ phase = "run"
  /\ toggles + clickCount + hovers < MaxEvents
  /\ toggles' = toggles + 1
  /\ selectedLayers' = handleLayerChange(selectedLayers, l)
  /\ fetchLayers(selectedLayers')
  /\ UNCHANGED <<phase, strict, hovers, styleVars, routeVars, lastRound, selVars>>

\* a checkbox of the layer panel changes; the panel is rendered only while
\* nothing is selected
Toggle(l) ==
  /\ phase = "run"
  /\ selectedFeature.isNull
  /\ toggles + clickCount + hovers < MaxEvents
  /\ toggles' = toggles + 1
  /\ selectedLayers' = handleLayerChange(selectedLayers, l)
  /\ fetchLayers(selectedLayers')
  /\ UNCHANGED <<phase, strict, hovers, styleVars, routeVars, lastRound, selVars>>

\* the retrieval awaited by round i settles with outcome o
FetchReturn(i, o) ==
  /\ InFlight(rounds[i])
  /\ LET r == ResumeRound(rounds[i], o) IN
       IF InFlight(r)
       THEN /\ rounds' = [rounds EXCEPT ![i] = r]
            /\ UNCHANGED <<geojson, mapVars, lastRound>>
       ELSE /\ rounds' = RemoveAt(rounds, i)
            /\ lastRound' = r
            /\ Publish(r.merged)
  /\ UNCHANGED <<phase, strict, hovers, styleVars, routeVars, selectedLayers, toggles, selVars>>

\* the canvas m finishes loading; a removed canvas fires nothing
MapLoad(m) ==
  /\ ~maps[m].removed
  /\ ~maps[m].loaded
  /\ phase = "run"
  /\ SetMapRefs(FireLoad(MapRefs, m))
  /\ UNCHANGED <<phase, strict, hovers, styleVars, routeVars, appVars, lastUpdate, selVars>>

\* onFeatureClick(data): setSelectedFeature
onFeatureClick(data, n) ==
  /\ selectedFeature' = data
  /\ selBy' = n

\* a click on feature f, drawn by layer id: the handler up to its await
Click(id, f) ==
  /\ phase = "run"
  /\ mapCurrent # 0
  /\ toggles + clickCount + hovers < MaxEvents
  /\ LET m == maps[mapCurrent] IN
       /\ m.subs[<<id, "click">>] > 0
       /\ Includes(m.sourceData, f)
       /\ LayerDraws(id, f)
  /\ clickCount' = clickCount + 1
  /\ IF HasPhotoRef(Props(f))
     THEN /\ clicks' = Append(clicks, [feat |-> f, num |-> clickCount'])
          /\ UNCHANGED <<selectedFeature, selBy>>
     ELSE /\ onFeatureClick(Selection(Props(f), NullUrl), clickCount')
          /\ UNCHANGED clicks
  /\ UNCHANGED <<phase, strict, hovers, styleVars, routeVars, appVars, mapVars>>

\* mutant: no try/catch around the photo retrieval, a failure rejects the
\* handler before it reaches onFeatureClick
PhotoReturn_uncaught(i, o) ==
  /\ clicks' = RemoveAt(clicks, i)
  /\ IF o = "throw"
     THEN UNCHANGED <<selectedFeature, selBy>>
     ELSE LET props == Props(clicks[i].feat) IN
            onFeatureClick(Selection(props, PhotoUrlOf(props.Hyperlink, o)), clicks[i].num)
  /\ UNCHANGED <<phase, strict, hovers, styleVars, routeVars, appVars, mapVars, clickCount>>

\* the photo retrieval awaited by click handler i settles with outcome o
PhotoReturn(i, o) ==
  /\ clicks' = RemoveAt(clicks, i)
  /\ LET props == Props(clicks[i].feat) IN
       onFeatureClick(Selection(props, PhotoUrlOf(props.Hyperlink, o)), clicks[i].num)
  /\ UNCHANGED <<phase, strict, hovers, styleVars, routeVars, appVars, mapVars, clickCount>>

\* the pointer enters a feature drawn by layer id of canvas m
MouseEnter(m, id) ==
  /\ ~maps[m].removed
  /\ maps[m].subs[<<id, "mouseenter">>] > 0
  /\ \E f \in Features : Includes(maps[m].sourceData, f) /\ LayerDraws(id, f)
  /\ toggles + clickCount + hovers < MaxEvents
  /\ hovers' = hovers + 1
  /\ SetMapRefs(onMouseEnter(MapRefs))
  /\ UNCHANGED <<phase, strict, styleVars, routeVars, appVars, lastUpdate, selVars>>

\* the pointer leaves the features of layer id of canvas m
MouseLeave(m, id) ==
  /\ ~maps[m].removed
  /\ maps[m].subs[<<id, "mouseleave">>] > 0
  /\ toggles + clickCount + hovers < MaxEvents
  /\ hovers' = hovers + 1
  /\ SetMapRefs(onMouseLeave(MapRefs))
  /\ UNCHANGED <<phase, strict, styleVars, routeVars, appVars, lastUpdate, selVars>>

\* addOrUpdateSource starts the expression
StartExpression ==
  /\ stylePc.at = "start"
  /\ colorExpression' = NewColorExpression
  /\ stylePc' = [at |-> "forEach", k |-> 1]
  /\ UNCHANGED <<phase, strict, hovers, routeVars, colors, paint, appVars, mapVars, selVars>>

\* one call of the forEach callback
ForEachEntry ==
  /\ stylePc.at = "forEach"
  /\ stylePc.k <= Len(colors)
  /\ colorExpression' = PushEntry(colorExpression, colors[stylePc.k])
  /\ stylePc' = [stylePc EXCEPT !.k = @ + 1]
  /\ UNCHANGED <<phase, strict, hovers, routeVars, colors, paint, appVars, mapVars, selVars>>

\* the push that follows the forEach
PushDefault ==
  /\ stylePc.at = "forEach"
  /\ stylePc.k > Len(colors)
  /\ colorExpression' = PushFallback(colorExpression)
  /\ stylePc' = [stylePc EXCEPT !.at = "addLayer"]
  /\ UNCHANGED <<phase, strict, hovers, routeVars, colors, paint, appVars, mapVars, selVars>>

\* the four addLayer calls
AddLayers ==
  /\ stylePc.at = "addLayer"
  /\ paint' = [id \in LayerIds |-> LayerPaint(id, colorExpression)]
  /\ stylePc' = [stylePc EXCEPT !.at = "done"]
  /\ UNCHANGED <<phase, strict, hovers, routeVars, colors, colorExpression, appVars, mapVars, selVars>>

\* the user follows a link or enters a URL
Go(path) ==
  /\ element # "Navigate"
  /\ Len(location) < MaxHistory
  /\ location' = Append(location, path)
  /\ element' = RouteElement(path, user, loading)
  /\ UNCHANGED <<phase, strict, hovers, styleVars, user, loading, appVars, mapVars, selVars>>

\* useAuth() gives a new value and the route renders again
AuthChange(u, l) ==
  /\ element # "Navigate"
  /\ <<u, l>> # <<user, loading>>
  /\ user' = u
  /\ loading' = l
  /\ element' = RouteElement(Current(location), u, l)
  /\ UNCHANGED <<phase, strict, hovers, styleVars, location, appVars, mapVars, selVars>>

\* the rendered <Navigate to="/signin" replace /> takes effect
Redirect ==
  /\ element = "Navigate"
  /\ location' = [location EXCEPT ![Len(location)] = "/signin"]
  /\ element' = RouteElement("/signin", user, loading)
  /\ UNCHANGED <<phase, strict, hovers, styleVars, user, loading, appVars, mapVars, selVars>>

\* the Detail View's Back button
Back ==
  /\ phase = "run"
  /\ ~selectedFeature.isNull
  /\ selectedFeature' = NoSelection
  /\ selBy' = 0
  /\ UNCHANGED <<phase, strict, hovers, styleVars, routeVars, appVars, mapVars, clicks, clickCount>>

Next ==
  \/ Mount
  \/ StrictCleanup
  \/ \E l \in Layers : Toggle(l)
  \/ \E i \in 1..Len(rounds), o \in FetchOutcomes : FetchReturn(i, o)
  \/ \E m \in 1..Len(maps) : MapLoad(m)
  \/ \E id \in InteractiveLayers, f \in Features : Click(id, f)
  \/ \E i \in 1..Len(clicks), o \in PhotoOutcomes : PhotoReturn(i, o)
  \/ \E m \in 1..Len(maps), id \in InteractiveLayers : MouseEnter(m, id)
  \/ \E m \in 1..Len(maps), id \in InteractiveLayers : MouseLeave(m, id)
  \/ Back

Spec == Init /\ [][Next]_vars

\* every retrieval a run awaits eventually succeeds or fails
RetrievalSettles == \E i \in 1..Len(rounds), o \in FetchOutcomes : FetchReturn(i, o)

\* the construction of the style expression, for any ColorMap
NextColors == StartExpression \/ ForEachEntry \/ PushDefault \/ AddLayers

SpecColors == InitColors /\ [][NextColors]_vars

\* the router under every course of the authentication
NextRoute ==
  \/ \E p \in Paths : Go(p)
  \/ \E u \in Users \cup {NoUser}, l \in BOOLEAN : AuthChange(u, l)
  \/ Redirect

SpecRoute == InitRoute /\ [][NextRoute]_vars

SpecLive == Spec /\ WF_vars(RetrievalSettles)

\* every photo retrieval a click handler awaits eventually succeeds or fails
PhotoSettles == \E i \in 1..Len(clicks), o \in PhotoOutcomes : PhotoReturn(i, o)

SpecPhotoLive == Spec /\ WF_vars(PhotoSettles)

\* -------------------------------------------------------------- properties

\* number of occurrences of x in s
Count(s, x) == Cardinality({i \in 1..Len(s) : s[i] = x})

\* the elements of s that occur in t, in the order of s
RECURSIVE Restrict(_, _)
Restrict(s, t) ==
  IF s = <<>> THEN <<>>
  ELSE (IF Includes(t, Head(s)) THEN <<Head(s)>> ELSE <<>>) \o Restrict(Tail(s), t)

\* the layers of run r whose retrieval returned a FeatureCollection
Succeeded(r) == {l \in SeqToSet(r.layers) : r.outcome[l] = "ok"}

Settled == phase = "run" /\ rounds = <<>>

\* C1: layer fetch supersession. Once every retrieval has completed, the
\* published collection is the one computed for the current active set: null
\* for the empty set, else the collection of the run started by the last toggle.
C1_LayerFetchSupersession ==
  Settled =>
    IF selectedLayers = <<>> THEN geojson = Null
    ELSE lastRound.gen = toggles /\ geojson = lastRound.merged

\* C2: selection supersession. Once no photo retrieval is pending, a selection
\* that is shown is the one of the latest click.
C2_SelectionSupersession ==
  (clicks = <<>> /\ ~selectedFeature.isNull) => selBy = clickCount

\* C3: the collection a run publishes holds each feature of each successfully
\* retrieved layer of its active set exactly once, nothing else, in the order
\* of its collection; the statement does not depend on the order of the set.
C3_MergedIsConcatenation ==
  lastRound.pubCount > 0 =>
    /\ ~lastRound.merged.isNull
    /\ \A f \in Features :
         Count(lastRound.merged.features, f) =
           IF LayerOf(f) \in Succeeded(lastRound) THEN 1 ELSE 0
    /\ \A l \in Succeeded(lastRound) :
         Restrict(lastRound.merged.features, LayerData(l)) = LayerData(l)

\* C3 witness: both layers retrieved, their 2 + 1 features merged
C3_Witness ==
  /\ Len(lastRound.layers) = 2
  /\ Succeeded(lastRound) = Layers
  /\ Len(lastRound.merged.features) = 3

\* C4: a run in which a retrieval failed still issued the retrieval of every
\* layer of its set and published, once, the features of the layers that
\* succeeded.
C4_PartialResult ==
  (lastRound.gen > 0 /\ \E l \in Layers : lastRound.outcome[l] = "throw") =>
    /\ lastRound.issued = SeqToSet(lastRound.layers)
    /\ \A l \in SeqToSet(lastRound.layers) : lastRound.outcome[l] # "none"
    /\ lastRound.pubCount = 1
    /\ \A l \in Succeeded(lastRound) :
         Restrict(lastRound.merged.features, LayerData(l)) = LayerData(l)

\* C4 witness: the first retrieval failed, the second delivered its features
C4_Witness ==
  /\ Len(lastRound.layers) = 2
  /\ lastRound.outcome[lastRound.layers[1]] = "throw"
  /\ lastRound.outcome[lastRound.layers[2]] = "ok"
  /\ lastRound.merged.features # <<>>
  /\ geojson = lastRound.merged

\* C5: the step that empties the active set publishes null and neither starts
\* a run nor issues a retrieval.
C5_EmptySetNoRetrieval ==
  [][(selectedLayers # <<>> /\ selectedLayers' = <<>>) =>
       (geojson' = Null /\ rounds' = rounds)]_vars

\* C5 witness: a collection was published, then the last layer was deselected
C5_Witness ==
  /\ toggles = 2
  /\ selectedLayers = <<>>
  /\ lastRound.gen = 1
  /\ geojson = Null

\* C6: with the empty collection published for the empty active set, the
\* map's data source holds no features.
C6_SourceFollowsEmptySet ==
  (Settled /\ mapCurrent # 0 /\ mapLoaded /\ selectedLayers = <<>> /\ geojson = Null)
    => maps[mapCurrent].sourceData = <<>>

\* C7: a run has the retrieval of every layer of its set issued while it is
\* in flight; none waits for another to complete.
C7_ConcurrentIssue ==
  \A i \in 1..Len(rounds) : rounds[i].issued = SeqToSet(rounds[i].layers)

\* C8: once the canvas is Ready the data source holds the collection of the
\* last updateData call, whether the call came before Ready or after.
C8_UpdatesNotLost ==
  (mapCurrent # 0 /\ mapLoaded /\ ~lastUpdate.isNull) =>
    /\ maps[mapCurrent].sources = 1
    /\ maps[mapCurrent].sourceData = lastUpdate.features

\* C8 witness: two different collections were queued before Ready
C8_Witness ==
  /\ mapCurrent # 0
  /\ mapLoaded
  /\ Len(maps[mapCurrent].listeners) >= 3
  /\ maps[mapCurrent].listeners[2].data # maps[mapCurrent].listeners[3].data
  /\ maps[mapCurrent].sourceData = maps[mapCurrent].listeners[3].data.features

\* C9: every canvas has at most one geojson-data source, each rendering layer
\* created at most once and each pointer subscription at most once; layers
\* and subscriptions exist exactly when the source does.
C9_NoDuplicateLayers ==
  \A m \in 1..Len(maps) :
    /\ maps[m].sources <= 1
    /\ \A id \in LayerIds : maps[m].layers[id] = maps[m].sources
    /\ \A p \in InteractiveLayers \X PointerEvents : maps[m].subs[p] = maps[m].sources
    /\ maps[m].sources = 0 => maps[m].setDatas = 0

\* C9 witness: a layer toggled on, off and on again, the later collections
\* applied by setData
C9_Witness ==
  /\ toggles = 3
  /\ Len(selectedLayers) = 1
  /\ mapCurrent # 0
  /\ maps[mapCurrent].sources = 1
  /\ maps[mapCurrent].setDatas >= 1
  /\ geojson = FC(LayerData(selectedLayers[1]))
  /\ maps[mapCurrent].sourceData = geojson.features

\* the state of the rendering engine, read off the Map component's refs
CanvasState(cur, loaded) ==
  IF cur = 0 THEN "Uninitialized" ELSE IF loaded THEN "Ready" ELSE "Loading"

\* the canvases constructed and not removed
Live(ms) == {m \in 1..Len(ms) : ~ms[m].removed}

\* number of runs of the mount effect so far
MountRuns == CASE phase = "init" -> 0
               [] phase \in {"cleanup", "remount"} -> 1
               [] OTHER -> IF strict THEN 2 ELSE 1

\* C10 as stated: the canvas is constructed exactly once per session, also
\* when the mount effect is run, cleaned up and run again.
C10_CanvasConstructedOnce == Len(maps) <= 1

\* C10 amended: every run of the mount effect constructs one canvas, the
\* cleanup returns the engine to Uninitialized with the canvas removed, at
\* most one canvas is live and it is the mounted one, and Ready is entered
\* only from Loading by the first load signal of the mounted canvas.
C10_CanvasLifecycle ==
  [][LET old == CanvasState(mapCurrent, mapLoaded)
         new == CanvasState(mapCurrent', mapLoaded') IN
     /\ Len(maps) = MountRuns
     /\ Len(maps') = MountRuns'
     /\ Live(maps') = IF mapCurrent' = 0 THEN {} ELSE {mapCurrent'}
     /\ (old = "Uninitialized" /\ new # old) =>
          (new = "Loading" /\ Len(maps') = Len(maps) + 1 /\ mapCurrent' = Len(maps'))
     /\ (old = "Loading" /\ new # old) =>
          \/ new = "Uninitialized" /\ maps'[mapCurrent].removed
          \/ /\ new = "Ready"
             /\ mapCurrent' = mapCurrent
             /\ ~maps[mapCurrent].loaded
             /\ maps'[mapCurrent].loaded
     /\ (old = "Ready" /\ new # old) =>
          (new = "Uninitialized" /\ maps'[mapCurrent].removed)
    ]_vars

\* C10 witness: the mount effect ran, was cleaned up and ran again; the
\* second canvas is Ready, the first one removed and never loaded
C10_Witness ==
  /\ Len(maps) = 2
  /\ maps[1].removed /\ ~maps[1].loaded
  /\ mapCurrent = 2 /\ mapLoaded /\ maps[2].loaded

\* C11: a click on a feature without a photo reference publishes, in the
\* click's own step, that feature's properties with photoUrl = null and issues
\* no photo retrieval.
C11_NoPhotoRefNoRetrieval ==
  [][\A id \in InteractiveLayers, f \in Features :
       (Click(id, f) /\ Props(f).Hyperlink = NoValue) =>
         /\ selectedFeature' = Selection(Props(f), NullUrl)
         /\ clicks' = clicks
    ]_vars

\* C11 witness: feature 2, which has no Hyperlink, was clicked and is selected
\* while no photo retrieval is or was under way
C11_Witness ==
  /\ clickCount = 1
  /\ clicks = <<>>
  /\ selBy = 1
  /\ selectedFeature = Selection(Props(2), NullUrl)

\* C12: when the photo retrieval of a click fails, the click still publishes
\* the clicked feature's properties, with photoUrl = null.
C12_PhotoFailureStillSelects ==
  [][\A i \in 1..Len(clicks) :
       PhotoReturn(i, "throw") =>
         selectedFeature' = Selection(Props(clicks[i].feat), NullUrl)
    ]_vars

\* C12 witness: a feature with a Hyperlink is selected with a null photo URL
C12_Witness ==
  /\ ~selectedFeature.isNull
  /\ selectedFeature.properties.Hyperlink # NoValue
  /\ selectedFeature.photoUrl = NullUrl
  /\ selBy = clickCount

\* C13: from the moment of a click, also while the click's photo retrieval is
\* pending, no selection of an earlier click is the active selection.
C13_ClickDiscardsPrevious ==
  (clicks # <<>> /\ clicks[Len(clicks)].num = clickCount) => selectedFeature.isNull

\* C14: the Detail View renders, for Name, CYCLE and FOURTH_ORD, the value the
\* selected feature has for the attribute, whenever it has one.
C14_DetailViewShowsAttributes ==
  ~selectedFeature.isNull =>
    \A k \in DetailFields :
      selectedFeature.properties[k] # NoValue =>
        DetailView(selectedFeature)[k] = selectedFeature.properties[k]

\* C15: while a selection is active the toggle panel is not rendered and the
\* active set does not change; the step that returns the selection to none
\* (Back) shows the panel again and changes neither the active set nor the
\* published collection.
C15_DetailViewReplacesPanel ==
  [][/\ ~selectedFeature.isNull =>
          (~PanelShown /\ toggles' = toggles /\ selectedLayers' = selectedLayers)
     /\ (~selectedFeature.isNull /\ selectedFeature'.isNull) =>
          /\ PanelShown'
          /\ selectedLayers' = selectedLayers
          /\ geojson' = geojson
          /\ rounds' = rounds
    ]_vars

\* C15 witness: every click has published and the user backed out; the layer
\* is still active and its collection still published
C15_Witness ==
  /\ clickCount > 0
  /\ clicks = <<>>
  /\ selectedFeature.isNull
  /\ selectedLayers # <<>>
  /\ ~geojson.isNull

\* C17: the active layer list never holds a layer twice and starts empty; it
\* changes only in a toggle step, and a toggle of layer l flips the membership
\* of l and of no other layer. By induction a layer is in the list exactly
\* when it was toggled an odd number of times, and two toggles of one layer
\* restore the previous set.
C17_ToggleParity ==
  /\ selectedLayers = <<>>
  /\ [](Len(selectedLayers) = Cardinality(SeqToSet(selectedLayers)))
  /\ [][/\ selectedLayers' # selectedLayers => \E l \in Layers : Toggle(l)
        /\ \A l \in Layers :
             Toggle(l) =>
               /\ (l \in SeqToSet(selectedLayers')) = (l \notin SeqToSet(selectedLayers))
               /\ SeqToSet(selectedLayers') \ {l} = SeqToSet(selectedLayers) \ {l}
       ]_vars

\* C17 witness: three toggles (one layer three times, or one once and the
\* other twice) leave exactly the layer toggled an odd number of times
C17_Witness ==
  /\ toggles = 3
  /\ SeqToSet(selectedLayers) = {"faults"}
  /\ Len(selectedLayers) = 1

\* C18: when the photo retrieval of a click succeeds, the selection it
\* publishes carries the clicked feature's properties and the URL the service
\* returned for the feature's photo reference, or the null URL when the
\* response holds no URL.
C18_PhotoSuccessAttachesUrl ==
  [][\A i \in 1..Len(clicks) :
       LET f == clicks[i].feat IN
       /\ PhotoReturn(i, "url") =>
            selectedFeature' = Selection(Props(f), ResolvedUrl(Props(f).Hyperlink))
       /\ PhotoReturn(i, "nourl") =>
            selectedFeature' = Selection(Props(f), NullUrl)
    ]_vars

\* C18 witness: the latest click's retrieval returned a URL and the selection
\* carries it
C18_Witness ==
  /\ ~selectedFeature.isNull
  /\ selBy = clickCount
  /\ selectedFeature.properties.Hyperlink # NoValue
  /\ selectedFeature.photoUrl = ResolvedUrl(selectedFeature.properties.Hyperlink)

\* C19: a run of fetchLayers calls setGeojson exactly once, after the last of
\* its retrievals has completed or failed: a run still awaiting a retrieval has
\* published nothing, a finished run has published once with every retrieval
\* settled, and every step that publishes a collection is the final step of
\* such a run and publishes its merge.
C19_PublishOnceAfterJoin ==
  /\ [](/\ \A i \in 1..Len(rounds) :
             /\ InFlight(rounds[i])
             /\ rounds[i].pubCount = 0
             /\ rounds[i].merged = Null
        /\ lastRound.gen > 0 =>
             /\ ~InFlight(lastRound)
             /\ lastRound.pubCount = 1
             /\ \A l \in SeqToSet(lastRound.layers) : lastRound.outcome[l] # "none")
  /\ [][(geojson' # geojson /\ ~geojson'.isNull) =>
          /\ lastRound' # lastRound
          /\ Len(rounds') = Len(rounds) - 1
          /\ geojson' = lastRound'.merged
          /\ geojson' = FC(FlatMapFeatures(lastRound'.layerData))
       ]_vars

\* C19 witness: a run over two layers, one completed and one failed, has
\* published once while a later run is still awaiting its retrieval
C19_Witness ==
  /\ Len(lastRound.layers) = 2
  /\ lastRound.pubCount = 1
  /\ \E l \in Layers : lastRound.outcome[l] = "throw"
  /\ \E l \in Layers : lastRound.outcome[l] \in {"ok", "nofeatures"}
  /\ geojson = lastRound.merged
  /\ rounds # <<>>

\* the bodies a run has obtained from the first k retrievals it issued itself
RECURSIVE OwnBodies(_, _)
OwnBodies(r, k) ==
  IF k = 0 THEN <<>>
  ELSE LET l == r.layers[k] IN
       OwnBodies(r, k - 1) \o
         (IF r.outcome[l] = "throw" THEN <<>> ELSE <<ResponseBody(l, r.outcome[l])>>)

\* C20: the buffer a run merges holds exactly the bodies of the retrievals that
\* run issued for its own layer list, so the collection it publishes is the
\* merge of its own retrievals: every published feature belongs to a layer of
\* the run's list whose retrieval, in that run, delivered features, and none
\* appears twice.
C20_RoundLocalData ==
  /\ [](/\ \A i \in 1..Len(rounds) :
             rounds[i].layerData = OwnBodies(rounds[i], rounds[i].idx - 1)
        /\ lastRound.layerData = OwnBodies(lastRound, Len(lastRound.layers)))
  /\ [][(geojson' # geojson /\ ~geojson'.isNull) =>
          /\ geojson' = FC(FlatMapFeatures(OwnBodies(lastRound', Len(lastRound'.layers))))
          /\ \A f \in Features :
               Count(geojson'.features, f) =
                 IF LayerOf(f) \in Succeeded(lastRound') THEN 1 ELSE 0
       ]_vars

\* C20 witness: a later run has published after an earlier publication had
\* reached the canvas, and the collection holds only what the later run
\* retrieved itself
C20_Witness ==
  /\ lastRound.gen >= 2
  /\ Succeeded(lastRound) = {"fan_geology"}
  /\ geojson = FC(LayerData("fan_geology"))
  /\ mapCurrent # 0
  /\ maps[mapCurrent].setDatas > 0

\* the user events the interface offers: a checkbox, the Back button, a click
\* on a drawn feature
UserEvent ==
  \/ \E l \in Layers : Toggle(l)
  \/ Back
  \/ \E id \in InteractiveLayers, f \in Features : Click(id, f)

\* a layer or photo retrieval has failed
FailureSeen ==
  \/ \E l \in Layers : lastRound.outcome[l] = "throw"
  \/ \E i \in 1..Len(rounds), l \in Layers : rounds[i].outcome[l] = "throw"
  \/ /\ ~selectedFeature.isNull
     /\ selectedFeature.properties.Hyperlink # NoValue
     /\ selectedFeature.photoUrl = NullUrl

\* C16: if every awaited layer retrieval eventually succeeds or fails, every
\* run of fetchLayers that was started eventually publishes a collection: the
\* runs in flight all come to an end, and a run ends only by publishing its
\* merge. And once a layer or photo retrieval has failed, the interface still
\* accepts a user event (as long as the bound on events leaves room for one).
C16_NoFailureFatal ==
  /\ (rounds # <<>>) ~> (rounds = <<>>)
  /\ [][\A i \in 1..Len(rounds) :
          (\A j \in 1..Len(rounds') : rounds'[j].gen # rounds[i].gen) =>
            /\ lastRound'.gen = rounds[i].gen
            /\ lastRound'.pubCount = 1
            /\ ~lastRound'.merged.isNull
            /\ geojson' = lastRound'.merged
       ]_vars
  /\ []((FailureSeen /\ toggles + clickCount + hovers < MaxEvents) => ENABLED UserEvent)

\* C16 witness: a run whose every retrieval failed has published, and the
\* user has toggled a layer since
C16_Witness ==
  /\ lastRound.gen > 0
  /\ \A l \in SeqToSet(lastRound.layers) : lastRound.outcome[l] = "throw"
  /\ lastRound.pubCount = 1
  /\ toggles > lastRound.gen

\* the clicks whose handlers are suspended at their photo retrieval
Pending(cs) == {cs[i].num : i \in 1..Len(cs)}

\* C21: a click event runs one handler, which issues no retrieval and
\* publishes at once (no photo reference) or issues one retrieval and
\* publishes nothing until it settles; when the retrieval settles, with any
\* outcome, the handler publishes once and ends. Nothing else publishes a
\* selection, and if every photo retrieval eventually settles every handler
\* ends. So each click publishes exactly once and retrieves at most once.
C21_OnePublicationPerClick ==
  /\ (clicks # <<>>) ~> (clicks = <<>>)
  /\ [](Cardinality(Pending(clicks)) = Len(clicks))
  /\ [][/\ \A id \in InteractiveLayers, f \in Features :
             Click(id, f) =>
               /\ maps[mapCurrent].subs[<<id, "click">>] = 1
               /\ clickCount' \notin Pending(clicks)
               /\ IF Props(f).Hyperlink = NoValue
                  THEN /\ clicks' = clicks
                       /\ selBy' = clickCount'
                       /\ selectedFeature' = Selection(Props(f), NullUrl)
                  ELSE /\ clicks' = Append(clicks, [feat |-> f, num |-> clickCount'])
                       /\ selBy' = selBy
                       /\ selectedFeature' = selectedFeature
        /\ \A i \in 1..Len(clicks), o \in PhotoOutcomes :
             PhotoReturn(i, o) =>
               /\ Pending(clicks') = Pending(clicks) \ {clicks[i].num}
               /\ selBy' = clicks[i].num
               /\ ~selectedFeature'.isNull
               /\ selectedFeature'.properties = Props(clicks[i].feat)
        /\ (selBy' # selBy /\ selBy' # 0) =>
             /\ selBy' \notin Pending(clicks')
             /\ selBy' \in Pending(clicks) \/ (selBy' = clickCount' /\ clickCount' = clickCount + 1)
        /\ Pending(clicks') \subseteq Pending(clicks) \cup {clickCount + 1}
       ]_vars

\* C21 witness: two clicks, the second on a feature with a photo reference,
\* have both ended and the second one's publication is the selection
C21_Witness ==
  /\ clickCount = 2
  /\ clicks = <<>>
  /\ selBy = 2
  /\ selectedFeature.properties = Props(1)

\* what a pointer-enter or pointer-leave step leaves alone: the App's state,
\* the selection and its pending retrievals, the refs, and on every canvas
\* everything but the cursor
HoverFrame ==
  /\ UNCHANGED <<appVars, selVars, lastUpdate, mapCurrent, mapLoaded, phase>>
  /\ Len(maps') = Len(maps)
  /\ \A k \in 1..Len(maps) : [maps'[k] EXCEPT !.cursor = maps[k].cursor] = maps[k]
  /\ \A k \in 1..Len(maps) : k # mapCurrent => maps'[k] = maps[k]

\* C22: a pointer-enter on the fill, line or circle layer sets the cursor of
\* the canvas to pointer, a pointer-leave sets it to the default, and neither
\* changes the active set, the published collection, the runs and retrievals
\* in flight, the map's source, layers and subscriptions, or the selection.
C22_HoverOnlyCursor ==
  [][\A m \in 1..Len(maps), id \in InteractiveLayers :
       /\ MouseEnter(m, id) =>
            /\ HoverFrame
            /\ mapCurrent # 0 => maps'[mapCurrent].cursor = "pointer"
       /\ MouseLeave(m, id) =>
            /\ HoverFrame
            /\ mapCurrent # 0 => maps'[mapCurrent].cursor = ""
    ]_vars

\* C22 witness: two pointer events over drawn features, the last one a leave,
\* with the published collection still on the canvas
C22_Witness ==
  /\ hovers = 2
  /\ mapCurrent # 0
  /\ maps[mapCurrent].cursor = ""
  /\ maps[mapCurrent].sourceData # <<>>
  /\ geojson = FC(maps[mapCurrent].sourceData)

\* the geometry kinds a rendering layer is meant for; the label layer is the
\* layer of no geometry kind
KindsOf(id) ==
  CASE id = "geojson-fill"   -> {"Polygon"}
    [] id = "geojson-line"   -> {"LineString", "Polygon"}
    [] id = "geojson-circle" -> {"Point"}
    [] OTHER                 -> {}

\* C24: once the first update has created the layers, there is one layer per
\* geometry kind, every created layer carries a filter on its geometry kind,
\* and a feature of the source is drawn only by layers of its own kind.
C24_LayersFilteredByKind ==
  \A m \in 1..Len(maps) :
    maps[m].sources > 0 =>
      /\ \A id \in InteractiveLayers : maps[m].layers[id] = 1
      /\ \A id \in LayerIds :
           maps[m].layers[id] > 0 =>
             /\ LayerFilter(id) # NoFilter
             /\ \A f \in Features :
                  (Includes(maps[m].sourceData, f) /\ LayerDraws(id, f)) =>
                    Geometry(f) \in KindsOf(id)

\* C23: the finished expression is the match head, then one (category,
\* colour) arm for each entry of the ColorMap in the map's order, then one
\* default arm holding the fallback colour, and nothing else; the fill, line
\* and circle layers are all painted with that expression.
C23_ColorExpression ==
  stylePc.at = "done" =>
    /\ Len(colorExpression) = 2 + 2 * Len(colors) + 1
    /\ SubSeq(colorExpression, 1, 2) = NewColorExpression
    /\ \A k \in 1..Len(colors) :
         /\ colorExpression[2 * k + 1] = colors[k].cycle
         /\ colorExpression[2 * k + 2] = colors[k].color
    /\ colorExpression[Len(colorExpression)] = FallbackColor
    /\ \A id \in InteractiveLayers : paint[id] = colorExpression

\* C23 witness: the layers are painted for a ColorMap of two entries whose
\* order is not the alphabetical one
C23_Witness ==
  /\ stylePc.at = "done"
  /\ Len(colors) = 2
  /\ colors[1].cycle = "BC3"
  /\ colors[2].cycle = "BC1"
  /\ paint["geojson-fill"] # NoPaint

\* C25: the dashboard's App is rendered only at /dashboard with loading
\* finished and a user present; at /dashboard while loading, the loading
\* placeholder is rendered, neither the App nor a redirect; at /dashboard with
\* loading finished and no user the redirect is rendered, and the step it
\* takes replaces the location by /signin.
C25_RouteGuard ==
  /\ [](/\ element = "App" =>
             (Current(location) = "/dashboard" /\ ~loading /\ user # NoUser)
        /\ (Current(location) = "/dashboard" /\ loading) => element = "Loading..."
        /\ (Current(location) = "/dashboard" /\ ~loading /\ user = NoUser) =>
             element = "Navigate")
  /\ [][element = "Navigate" =>
          /\ Current(location') = "/signin"
          /\ Len(location') = Len(location)
          /\ element' = "SignInForm"
       ]_vars

\* C25 witness: the dashboard was requested from the sign-in page with
\* loading finished and no user, and the redirect is about to be taken
C25_Witness ==
  /\ location = <<"/signin", "/dashboard">>
  /\ ~loading
  /\ user = NoUser
  /\ element = "Navigate"

====
